---- MODULE Spec2Model ----
(***************************************************************************)
(* The meal planner bot: the cached meal catalog (table meals), the         *)
(* per-user selections (table user_meal_selections), the sync run that     *)
(* refreshes the catalog from the spreadsheet, the midnight job, and the   *)
(* handlers that list the meals, select a meal, list a week and add a meal *)
(* to the spreadsheet.                                                     *)
(*                                                                         *)
(* Strings are sequences of one-character strings, so that str.strip() is  *)
(* computed.  A date object is its day number, counted from 2024-01-01 (a  *)
(* Monday); an ISO date string is the triple <<year, month, day>>.         *)
(***************************************************************************)
EXTENDS Integers, Sequences, FiniteSets, TLC

\* ------------------------------------------------------------------ bounds

MaxRows == 2          \* rows of the spreadsheet column
MaxDay == 1           \* the clock runs from day 0 to day MaxDay
MaxSelections == 2    \* rows of user_meal_selections
MaxFirings == 1       \* firings of the midnight job per process
MaxSpan == 8          \* the process starts on a day from -MaxSpan to MaxSpan

Users == {1, 2}       \* Telegram user ids
Handlers == {1, 2}    \* callback queries handled at the same time
Cells == {<<" ">>, <<" ", "a", " ">>, <<"b">>}
Rows == {<<>>} \cup {<<c>> : c \in Cells}     \* a row of "values": [] or [cell]
MealIds == 1..MaxRows                           \* ids a callback can carry

\* ----------------------------------------------------------------- strings

RECURSIVE LStrip(_)
LStrip(s) == IF s # <<>> /\ Head(s) = " " THEN LStrip(Tail(s)) ELSE s

RECURSIVE RStrip(_)
RStrip(s) ==
    IF s # <<>> /\ s[Len(s)] = " " THEN RStrip(SubSeq(s, 1, Len(s) - 1)) ELSE s

\* str.strip()
Strip(s) == RStrip(LStrip(s))

\* ------------------------------------------------------------------- dates

IsLeap(y) == (y % 4 = 0 /\ y % 100 # 0) \/ y % 400 = 0

DaysInMonth(y, m) ==
    IF m \in {4, 6, 9, 11} THEN 30
    ELSE IF m = 2 THEN (IF IsLeap(y) THEN 29 ELSE 28)
    ELSE 31

NextDay(iso) ==
    LET y == iso[1]  m == iso[2]  d == iso[3] IN
    IF d < DaysInMonth(y, m) THEN <<y, m, d + 1>>
    ELSE IF m < 12 THEN <<y, m + 1, 1>>
    ELSE <<y + 1, 1, 1>>

PrevDay(iso) ==
    LET y == iso[1]  m == iso[2]  d == iso[3] IN
    IF d > 1 THEN <<y, m, d - 1>>
    ELSE IF m > 1 THEN <<y, m - 1, DaysInMonth(y, m - 1)>>
    ELSE <<y - 1, 12, 31>>

\* date.isoformat(): the ISO string of a date object
RECURSIVE isoformat(_)
isoformat(n) ==
    IF n = 0 THEN <<2024, 1, 1>>
    ELSE IF n > 0 THEN NextDay(isoformat(n - 1))
    ELSE PrevDay(isoformat(n + 1))

\* The days of the year before the first of month m
DaysBeforeMonth(y, m) ==
    <<0, 31, 59, 90, 120, 151, 181, 212, 243, 273, 304, 334>>[m]
        + (IF m > 2 /\ IsLeap(y) THEN 1 ELSE 0)

RECURSIVE DaysBeforeYear(_)
DaysBeforeYear(y) ==
    IF y = 2024 THEN 0
    ELSE IF y > 2024
        THEN DaysBeforeYear(y - 1) + (IF IsLeap(y - 1) THEN 366 ELSE 365)
        ELSE DaysBeforeYear(y + 1) - (IF IsLeap(y) THEN 366 ELSE 365)

\* datetime.fromisoformat(s).date(): the date object of an ISO string
fromisoformat(iso) ==
    DaysBeforeYear(iso[1]) + DaysBeforeMonth(iso[1], iso[2]) + iso[3] - 1

\* timedelta(days=7)
WeekDays == 7

\* ------------------------------------------------------------------- state

VARIABLES
    sheet,        \* the spreadsheet column: the "values" of Sheet1!A:A
    meals,        \* table meals: records [id, name]
    selections,   \* table user_meal_selections: [id, user_id, meal_id, selected_date]
    today,        \* datetime.now().date()
    pc,           \* where on_startup is: "fetch", "clear", "insert", "done", "serving"
    run,          \* the sync run in flight: [before, fetched, log]
    running,      \* scheduler.running
    firings,      \* times the scheduler has called the midnight job
    sess,         \* per handler: the callback query being handled
    fsm,          \* per user: the FSMContext state of the add-meal conversation
    conv,         \* process_meal_name in flight: [pc, user, text, outcome, calls]
    reply,        \* the last answer of cmd_meals or cmd_view: [kind, to, body]
    appended      \* the names add_meal has written since the last fetched run

vars == <<sheet, meals, selections, today, pc, run, running, firings, sess,
          fsm, conv, reply, appended>>

\* The "values" of a get: the rows down to the last one that is not empty
\* (the API leaves trailing empty rows out)
Sheets ==
    {v \in UNION {[1..n -> Rows] : n \in 0..MaxRows} :
        v = <<>> \/ v[Len(v)] # <<>>}

\* prevFailed: the run before this one, in the process stopped just before,
\* ended in a failure
NoRun == [before |-> {}, fetched |-> <<>>, log |-> "none", prevFailed |-> FALSE]
Idle == [pc |-> "idle"]
NoReply == [kind |-> "none"]

\* ---------------------------------------------------------------- sheets.py

\* [meal[0].strip() for meal in values if meal and meal[0].strip()]
RECURSIVE Flatten(_)
Flatten(values) ==
    IF values = <<>> THEN <<>>
    ELSE LET meal == Head(values) IN
         IF meal # <<>> /\ Strip(meal[1]) # <<>>
         THEN <<Strip(meal[1])>> \o Flatten(Tail(values))
         ELSE Flatten(Tail(values))

\* SheetsClient.fetch_meals, when the request succeeds
fetch_meals(values) == IF values = <<>> THEN <<>> ELSE Flatten(values)

\* values.update of one cell of the column: the rows between the last row
\* and the written one are empty
UpdateCell(values, row, cell) ==
    [i \in 1..(IF row > Len(values) THEN row ELSE Len(values)) |->
        IF i = row THEN <<cell>>
        ELSE IF i <= Len(values) THEN values[i] ELSE <<>>]

\* The requests of add_meal that can fail
Faults == {"none", "get", "update"}

\* add_meal writing into the last row that holds a value
add_meal_last_row(values, meal_name, fault) ==
    IF fault # "none" THEN [success |-> FALSE, values |-> values]
    ELSE LET next_row == IF values = <<>> THEN 1 ELSE Len(values)
         IN [success |-> TRUE,
             values |-> UpdateCell(values, next_row, Strip(meal_name))]

\* SheetsClient.add_meal: the get of the column, then the update of the cell
\* under its last row; an exception of either request is logged and answered
\* with False.  A request that fails changes nothing in the sheet.
add_meal(values, meal_name, fault) ==
    IF fault = "get" THEN [success |-> FALSE, values |-> values]
    ELSE LET next_row == Len(values) + 1 IN
         IF fault = "update" THEN [success |-> FALSE, values |-> values]
         ELSE [success |-> TRUE,
               values |-> UpdateCell(values, next_row, Strip(meal_name))]

\* ----------------------------------------------------------------- utils.py

\* date.weekday(): (toordinal() + 6) % 7, Monday is 0; the ordinal of day 0,
\* 2024-01-01, is 738886
weekday(d) == (d + 738886 + 6) % 7

\* The week that starts on Sunday
get_current_week_start_sunday ==
    isoformat(today - ((weekday(today) + 1) % 7))

\* get_current_week_start
get_current_week_start ==
    LET days_since_monday == weekday(today)
        week_start == today - days_since_monday
    IN isoformat(week_start)

\* -------------------------------------------------------------- database.py

Range(s) == {s[i] : i \in DOMAIN s}

MaxOf(S) == CHOOSE x \in S : \A y \in S : y <= x

\* SQLite's rowid of an INTEGER PRIMARY KEY column: one more than the largest
\* id in the table, 1 in an empty table
NextId(ms) == IF ms = {} THEN 1 ELSE MaxOf({m.id : m \in ms}) + 1

\* Meal.name is unique=True: the INSERTs of a flush violate it when two of
\* the pending names are equal or one is already in the table
NameConflict(ms, names) ==
    \/ \E i, j \in DOMAIN names : i # j /\ names[i] = names[j]
    \/ \E i \in DOMAIN names : \E m \in ms : m.name = names[i]

\* Database.clear_meals: session.query(Meal).delete(), committed
clear_meals(ms) == {}

\* Database.insert_meals: one pending Meal per name (session.merge of an
\* object without a primary key adds a new row), flushed at commit; an
\* IntegrityError rolls the whole transaction back and is re-raised
insert_meals(ms, names) ==
    IF NameConflict(ms, names)
    THEN [raised |-> TRUE, meals |-> ms]
    ELSE [raised |-> FALSE,
          meals |-> ms \cup {[id |-> NextId(ms) + i - 1, name |-> names[i]] :
                              i \in DOMAIN names}]

\* Database.get_meals: (id, name) ordered by id
RECURSIVE SortById(_)
SortById(ms) ==
    IF ms = {} THEN <<>>
    ELSE LET m == CHOOSE x \in ms : \A y \in ms : x.id <= y.id
         IN <<<<m.id, m.name>>>> \o SortById(ms \ {m})

get_meals == SortById(meals)

\* Database.meal_exists
meal_exists == Cardinality(meals) > 0

\* A unique constraint on (user_id, selected_date) in place of the triple
unique_user_date(sel, row) ==
    \E r \in sel : /\ r.user_id = row.user_id
                   /\ r.selected_date = row.selected_date

\* UniqueConstraint("user_id", "meal_id", "selected_date")
unique_user_meal_date(sel, row) ==
    \E r \in sel : /\ r.user_id = row.user_id
                   /\ r.meal_id = row.meal_id
                   /\ r.selected_date = row.selected_date

\* select_meal on a table without the unique constraint
select_meal_unconstrained(sel, user_id, meal_id, selected_date) ==
    [success |-> TRUE,
     selections |-> sel \cup {[id |-> NextId(sel), user_id |-> user_id,
                               meal_id |-> meal_id,
                               selected_date |-> fromisoformat(selected_date)]}]

\* select_meal on a connection that enforces the foreign key meals.id
select_meal_fk(sel, user_id, meal_id, selected_date) ==
    LET row == [id |-> NextId(sel), user_id |-> user_id, meal_id |-> meal_id,
                selected_date |-> fromisoformat(selected_date)]
    IN IF \/ \E r \in sel : /\ r.user_id = row.user_id
                            /\ r.meal_id = row.meal_id
                            /\ r.selected_date = row.selected_date
          \/ ~ \E m \in meals : m.id = meal_id
       THEN [success |-> FALSE, selections |-> sel]
       ELSE [success |-> TRUE, selections |-> sel \cup {row}]

\* Database.select_meal: the INSERT of the new row at commit.  The unique
\* constraint is the only check: meal_id is a ForeignKey("meals.id"), which
\* SQLite does not enforce unless PRAGMA foreign_keys is set, and it is not.
\* An IntegrityError is caught and answered with False.
select_meal(sel, user_id, meal_id, selected_date) ==
    LET row == [id |-> NextId(sel), user_id |-> user_id, meal_id |-> meal_id,
                selected_date |-> fromisoformat(selected_date)]
    IN IF unique_user_meal_date(sel, row)
       THEN [success |-> FALSE, selections |-> sel]
       ELSE [success |-> TRUE, selections |-> sel \cup {row}]

\* The join with the end of the week included (selected_date <= week_end_date)
JoinRowsClosed(user_id, week_start_date, week_end_date) ==
    {[name |-> m.name, selected_date |-> s.selected_date, sid |-> s.id] :
        <<m, s>> \in {p \in meals \X selections :
            /\ p[1].id = p[2].meal_id
            /\ p[2].user_id = user_id
            /\ p[2].selected_date >= week_start_date
            /\ p[2].selected_date <= week_end_date}}

\* The rows of Meal JOIN UserMealSelection ON Meal.id = meal_id that pass the
\* filter of get_user_selections
JoinRows(user_id, week_start_date, week_end_date) ==
    {[name |-> m.name, selected_date |-> s.selected_date, sid |-> s.id] :
        <<m, s>> \in {p \in meals \X selections :
            /\ p[1].id = p[2].meal_id
            /\ p[2].user_id = user_id
            /\ p[2].selected_date >= week_start_date
            /\ p[2].selected_date < week_end_date}}

\* ORDER BY selected_date: any order of the rows in which the dates ascend
OrderBySelectedDate(rows) ==
    {q \in [1..Cardinality(rows) -> rows] :
        /\ \A i, j \in DOMAIN q : i # j => q[i] # q[j]
        /\ \A i, j \in DOMAIN q : i < j => q[i].selected_date <= q[j].selected_date}

\* Database.get_user_selections: the lists of (meal_name, ISO date) the query
\* can return
get_user_selections(user_id, week_start) ==
    LET week_start_date == fromisoformat(week_start)
        week_end_date == week_start_date + WeekDays
    IN {[i \in DOMAIN q |-> <<q[i].name, isoformat(q[i].selected_date)>>] :
          q \in OrderBySelectedDate(
                    JoinRows(user_id, week_start_date, week_end_date))}

\* -------------------------------------------------------------------- bot.py

Init ==
    /\ sheet \in Sheets
    /\ meals = {}
    /\ selections = {}
    /\ today = 0
    /\ pc = "fetch"
    /\ run = NoRun
    /\ running = FALSE
    /\ firings = 0
    /\ sess = [h \in Handlers |-> Idle]
    /\ fsm = [u \in Users |-> "none"]
    /\ conv = Idle
    /\ reply = NoReply
    /\ appended = {}

\* sync_meals, line 49: fetch_meals returns the list
SyncFetch ==
    /\ pc = "fetch"
    /\ run' = [run EXCEPT !.fetched = fetch_meals(sheet), !.log = "fetched"]
    /\ pc' = "clear"
    /\ UNCHANGED <<sheet, meals, selections, today, running, firings, sess,
                 fsm, conv, reply, appended>>

\* A sync run that clears the catalog before it fetches
SyncFetchRaisesCleared ==
    /\ pc = "fetch"
    /\ meals' = clear_meals(meals)
    /\ run' = [run EXCEPT !.log = "fetch_failed"]
    /\ pc' = "done"
    /\ UNCHANGED <<sheet, selections, today, running, firings, sess,
                 fsm, conv, reply, appended>>

\* sync_meals, line 49: the request to the Sheets API raises; fetch_meals logs
\* and re-raises, sync_meals logs and returns
SyncFetchRaises ==
    /\ pc = "fetch"
    /\ run' = [run EXCEPT !.log = "fetch_failed"]
    /\ pc' = "done"
    /\ UNCHANGED <<sheet, meals, selections, today, running, firings, sess,
                 fsm, conv, reply, appended>>

\* A DELETE of the meals that cascades to the selections
SyncClearCascade ==
    /\ pc = "clear"
    /\ meals' = clear_meals(meals)
    /\ selections' = {}
    /\ pc' = "insert"
    /\ UNCHANGED <<sheet, today, run, running, firings, sess,
                 fsm, conv, reply, appended>>

\* sync_meals, line 52: clear_meals commits the DELETE
SyncClear ==
    /\ pc = "clear"
    /\ meals' = clear_meals(meals)
    /\ pc' = "insert"
    /\ UNCHANGED <<sheet, selections, today, run, running, firings, sess,
                 fsm, conv, reply, appended>>

\* sync_meals, line 52: the storage fails in clear_meals; the session rolls
\* back, the exception reaches sync_meals, which logs and returns
SyncClearRaises ==
    /\ pc = "clear"
    /\ run' = [run EXCEPT !.log = "clear_failed"]
    /\ pc' = "done"
    /\ UNCHANGED <<sheet, meals, selections, today, running, firings, sess,
                 fsm, conv, reply, appended>>

\* sync_meals, lines 53-57: insert_meals when the list is not empty
SyncInsert ==
    /\ pc = "insert"
    /\ IF run.fetched # <<>>
       THEN LET r == insert_meals(meals, run.fetched) IN
            /\ meals' = r.meals
            /\ run' = [run EXCEPT
                         !.log = IF r.raised THEN "insert_integrity" ELSE "synced"]
       ELSE /\ meals' = meals
            /\ run' = [run EXCEPT !.log = "empty"]
    /\ pc' = "done"
    /\ UNCHANGED <<sheet, selections, today, running, firings, sess,
                 fsm, conv, reply, appended>>

\* sync_meals, line 54: the storage fails in insert_meals for another reason
\* than the unique constraint; the session rolls back
SyncInsertRaises ==
    /\ pc = "insert"
    /\ run.fetched # <<>>
    /\ run' = [run EXCEPT !.log = "insert_storage"]
    /\ pc' = "done"
    /\ UNCHANGED <<sheet, meals, selections, today, running, firings, sess,
                 fsm, conv, reply, appended>>

\* on_startup, lines 75-78, after sync_meals has returned: the scheduler is
\* started and the midnight job added; the dispatcher then handles updates
StartScheduler ==
    /\ pc = "done"
    /\ running' = TRUE
    /\ run' = NoRun
    /\ pc' = "serving"
    /\ appended' = IF run.log = "fetch_failed" THEN appended ELSE {}
    /\ UNCHANGED <<sheet, meals, selections, today, firings, sess,
                 fsm, conv, reply>>

\* The job "midnight_sync" fires: the BackgroundScheduler's executor calls the
\* job function sync_meals in a worker thread.  sync_meals is a coroutine
\* function: the call builds a coroutine object that nothing awaits, so no
\* line of its body runs.
midnight_sync ==
    /\ running
    /\ firings < MaxFirings
    /\ firings' = firings + 1
    /\ UNCHANGED <<sheet, meals, selections, today, pc, run, running, sess,
                 fsm, conv, reply, appended>>

InFlight == Cardinality({h \in Handlers : sess[h].pc = "added"})

\* A dispatcher that takes callback queries before on_startup has returned
SelectAddBeforeStartup(h, user_id, meal_id) ==
    /\ sess[h].pc = "idle"
    /\ Cardinality(selections) + InFlight < MaxSelections
    /\ sess' = [sess EXCEPT ![h] = [pc |-> "added", user_id |-> user_id,
                                    meal_id |-> meal_id,
                                    today |-> isoformat(today)]]
    /\ UNCHANGED <<sheet, meals, selections, today, pc, run, running, firings,
                 fsm, conv, reply, appended>>

\* process_meal_selection, lines 212-217, and select_meal up to
\* session.add: the new row is pending in the handler's session.  Updates
\* are handled once on_startup has returned: start_polling and the aiohttp
\* application emit the startup event before they take an update.  A new
\* triple is taken only while the table has room below MaxSelections rows.
SelectAdd(h, user_id, meal_id) ==
    /\ pc = "serving"
    /\ sess[h].pc = "idle"
    /\ LET t == [user_id |-> user_id, meal_id |-> meal_id,
                 selected_date |-> today]
       IN \/ unique_user_meal_date(selections, t)
          \/ Cardinality(selections) + InFlight < MaxSelections
    /\ sess' = [sess EXCEPT ![h] = [pc |-> "added", user_id |-> user_id,
                                    meal_id |-> meal_id,
                                    today |-> isoformat(today)]]
    /\ UNCHANGED <<sheet, meals, selections, today, pc, run, running, firings,
                 fsm, conv, reply, appended>>

\* select_meal, the commit on leaving get_db_session, and its return value.
\* The database decides the INSERT at the commit, after whatever other
\* sessions on the same file have committed since session.add.
SelectCommit(h) ==
    /\ sess[h].pc = "added"
    /\ LET r == select_meal(selections, sess[h].user_id, sess[h].meal_id,
                            sess[h].today)
       IN /\ selections' = r.selections
          /\ sess' = [sess EXCEPT ![h] = [pc |-> "answer", success |-> r.success]]
    /\ UNCHANGED <<sheet, meals, today, pc, run, running, firings,
                 fsm, conv, reply, appended>>

\* process_meal_selection, lines 219-227: the answer to the callback query
SelectAnswer(h) ==
    /\ sess[h].pc = "answer"
    /\ sess' = [sess EXCEPT ![h] = Idle]
    /\ UNCHANGED <<sheet, meals, selections, today, pc, run, running, firings,
                 fsm, conv, reply, appended>>

\* The owners of the spreadsheet edit the column.  The column is read by
\* fetch_meals alone, so an edit is taken where the next read sees it: before
\* the fetch of a sync run.
EditSheet ==
    /\ pc = "fetch"
    /\ sheet' \in Sheets
    /\ appended' = appended \cap Range(Flatten(sheet'))
    /\ UNCHANGED <<meals, selections, today, pc, run, running, firings, sess,
                 fsm, conv, reply>>

\* Midnight passes.  select_meal runs from the read of the date to the commit
\* without yielding and the commit does not read the clock, so midnight is
\* taken before or after a select_meal call in flight, not inside it.
Tick ==
    /\ today < MaxDay
    /\ \A h \in Handlers : sess[h].pc # "added"
    /\ today' = today + 1
    /\ UNCHANGED <<sheet, meals, selections, pc, run, running, firings, sess,
                 fsm, conv, reply, appended>>

\* The process is stopped, once sync_meals has returned, and main() is run
\* again: the module-level objects (the scheduler, the dispatcher and its
\* MemoryStorage) are rebuilt and on_startup runs; the database file and the
\* sheet remain
Restart ==
    /\ pc \in {"done", "serving"}
    /\ pc' = "fetch"
    /\ run' = [NoRun EXCEPT
                 !.before = meals,
                 !.prevFailed = run.log \in {"fetch_failed", "clear_failed",
                                              "insert_integrity",
                                              "insert_storage"}]
    /\ running' = FALSE
    /\ firings' = 0
    /\ sess' = [h \in Handlers |-> Idle]
    /\ fsm' = [u \in Users |-> "none"]
    /\ conv' = Idle
    /\ reply' = NoReply
    /\ appended' = IF run.log \in {"none", "fetch_failed"} THEN appended ELSE {}
    /\ UNCHANGED <<sheet, meals, selections, today>>

\* cmd_meals: the keyboard of get_meals.  A message of a user whose state is
\* waiting_for_meal_name is taken by process_meal_name, registered earlier.
cmd_meals(user_id) ==
    /\ pc = "serving"
    /\ fsm[user_id] = "none"
    /\ reply' = [kind |-> "meals", to |-> user_id, body |-> get_meals]
    /\ UNCHANGED <<sheet, meals, selections, today, pc, run, running, firings,
                 sess, fsm, conv, appended>>

\* cmd_view: the selections of the current week
cmd_view(user_id) ==
    /\ pc = "serving"
    /\ fsm[user_id] = "none"
    /\ LET week_start == get_current_week_start IN
       \E body \in get_user_selections(user_id, week_start) :
           reply' = [kind |-> "view", to |-> user_id, body |-> body]
    /\ UNCHANGED <<sheet, meals, selections, today, pc, run, running, firings,
                 sess, fsm, conv, appended>>

\* cmd_addmeal: state.set_state(AddMealState.waiting_for_meal_name)
cmd_addmeal(user_id) ==
    /\ pc = "serving"
    /\ fsm' = [fsm EXCEPT ![user_id] = "waiting_for_meal_name"]
    /\ UNCHANGED <<sheet, meals, selections, today, pc, run, running, firings,
                 sess, conv, reply, appended>>

\* len(meal_name) < 2
MinNameLen == 2

\* The texts a user sends; a message that is not a text has no text
Texts == {<<"a", " ">>, <<" ", "a", "b">>}
Messages == {[text |-> t] : t \in Texts} \cup {[sticker |-> "s"]}

\* process_meal_name answering with the state left as it is, whatever the
\* outcome
process_meal_name_answer_kept ==
    /\ conv.pc = "answer"
    /\ conv' = Idle
    /\ UNCHANGED <<sheet, meals, selections, today, pc, run, running, firings,
                 sess, fsm, reply, appended>>

\* process_meal_name refreshing the catalog itself after a meal is added
process_meal_name_answer_clearing ==
    /\ conv.pc = "answer"
    /\ fsm' = IF conv.outcome = "invalid" THEN fsm
              ELSE [fsm EXCEPT ![conv.user] = "none"]
    /\ meals' = IF conv.outcome = "added" THEN clear_meals(meals) ELSE meals
    /\ conv' = Idle
    /\ UNCHANGED <<sheet, selections, today, pc, run, running, firings,
                 sess, reply, appended>>

\* process_meal_name, lines 129-136, for a message of a user in the state
\* waiting_for_meal_name: the text is stripped and checked, and add_meal is
\* called; message.text of a message without text is None, and None.strip()
\* raises.  add_meal blocks the event loop from its get to its update.  A
\* name is added only while the column has room below MaxRows rows.
process_meal_name(user_id, message) ==
    /\ pc = "serving"
    /\ fsm[user_id] = "waiting_for_meal_name"
    /\ conv = Idle
    /\ IF "text" \notin DOMAIN message
       THEN /\ conv' = [pc |-> "answer", user |-> user_id, message |-> message,
                        outcome |-> "error", fault |-> "none", calls |-> 0]
            /\ UNCHANGED <<sheet, appended>>
       ELSE LET meal_name == Strip(message.text) IN
            IF meal_name = <<>> \/ Len(meal_name) < MinNameLen
            THEN /\ conv' = [pc |-> "answer", user |-> user_id,
                             message |-> message, outcome |-> "invalid",
                             fault |-> "none", calls |-> 0]
                 /\ UNCHANGED <<sheet, appended>>
            ELSE /\ Len(sheet) < MaxRows
                 /\ \E fault \in Faults :
                      LET r == add_meal(sheet, meal_name, fault) IN
                      /\ sheet' = r.values
                      /\ appended' = IF r.success
                                      THEN appended \cup {Strip(meal_name)}
                                      ELSE appended
                      /\ conv' = [pc |-> "answer", user |-> user_id,
                                  message |-> message,
                                  outcome |-> IF r.success THEN "added"
                                              ELSE "failed",
                                  fault |-> fault, calls |-> 1]
    /\ UNCHANGED <<meals, selections, today, pc, run, running, firings, sess,
                 fsm, reply>>

\* process_meal_name, lines 132-133 and 138-154: the answer; state.clear()
\* follows it unless the name was not valid
process_meal_name_answer ==
    /\ conv.pc = "answer"
    /\ fsm' = IF conv.outcome = "invalid" THEN fsm
              ELSE [fsm EXCEPT ![conv.user] = "none"]
    /\ conv' = Idle
    /\ UNCHANGED <<sheet, meals, selections, today, pc, run, running, firings,
                 sess, reply, appended>>

Next ==
    \/ SyncFetch
    \/ SyncFetchRaises
    \/ SyncClear
    \/ SyncClearRaises
    \/ SyncInsert
    \/ SyncInsertRaises
    \/ StartScheduler
    \/ midnight_sync
    \/ \E h \in Handlers, u \in Users, m \in MealIds : SelectAdd(h, u, m)
    \/ \E h \in Handlers : SelectCommit(h)
    \/ \E h \in Handlers : SelectAnswer(h)
    \/ EditSheet
    \/ Tick
    \/ Restart

Spec == Init /\ [][Next]_vars

\* Every handler of the bot, with the callback queries of one user handled one
\* at a time and the spreadsheet written by the bot alone, within one day
NextBot ==
    \/ SyncFetch
    \/ SyncFetchRaises
    \/ SyncClear
    \/ SyncClearRaises
    \/ SyncInsert
    \/ SyncInsertRaises
    \/ StartScheduler
    \/ midnight_sync
    \/ \E m \in MealIds : SelectAdd(1, 1, m)
    \/ SelectCommit(1)
    \/ SelectAnswer(1)
    \/ \E u \in Users : cmd_meals(u)
    \/ \E u \in Users : cmd_view(u)
    \/ \E u \in Users : cmd_addmeal(u)
    \/ \E u \in Users, message \in Messages : process_meal_name(u, message)
    \/ process_meal_name_answer
    \/ Restart

SpecBot == Init /\ [][NextBot]_vars

\* The process started on any day of a span around day 0 that crosses the end
\* of a year: its startup run, then the selections and the week of one user
InitWeek ==
    /\ sheet \in Sheets
    /\ meals = {}
    /\ selections = {}
    /\ today \in (0 - MaxSpan)..MaxSpan
    /\ pc = "fetch"
    /\ run = NoRun
    /\ running = FALSE
    /\ firings = 0
    /\ sess = [h \in Handlers |-> Idle]
    /\ fsm = [u \in Users |-> "none"]
    /\ conv = Idle
    /\ reply = NoReply
    /\ appended = {}

NextWeek ==
    \/ SyncFetch
    \/ SyncFetchRaises
    \/ SyncClear
    \/ SyncClearRaises
    \/ SyncInsert
    \/ SyncInsertRaises
    \/ StartScheduler
    \/ \E m \in MealIds : SelectAdd(1, 1, m)
    \/ SelectCommit(1)
    \/ SelectAnswer(1)
    \/ cmd_view(1)

SpecWeek == InitWeek /\ [][NextWeek]_vars

\* ------------------------------------------------------------------ claims

\* The run has fetched: fetch_meals returned run.fetched
Fetched == pc \in {"clear", "insert", "done"} /\ run.log # "fetch_failed"

Names(ms) == {m.name : m \in ms}

\* The distinct non-empty trimmed names of the column
DistinctNames(values) ==
    {Strip(r[1]) : r \in {x \in Range(values) : x # <<>>}} \ {<<>>}

\* C1: a sync run whose fetch succeeds and returns an empty list leaves the
\* catalog as it was before the run.
C1_EmptyFetchKeepsCatalog ==
    (Fetched /\ run.fetched = <<>>) => meals = run.before

\* C2: after a sync run, completed or failed at any step, the catalog is the
\* full new set of meals or the catalog that existed before the run.
C2_AllOrNothing ==
    pc = "done" =>
        \/ meals = run.before
        \/ /\ Fetched
           /\ Names(meals) = Range(run.fetched)
           /\ Cardinality(meals) = Cardinality(Range(run.fetched))

\* C3: after a sync run that replaces the catalog with the fetched names N,
\* duplicates included, get_meals lists the distinct non-empty trimmed names
\* of N, each once; a duplicate does not make the replacement fail.
C3_DistinctNamesListed ==
    (pc = "done" /\ run.log \in {"synced", "insert_integrity"}) =>
        /\ run.log = "synced"
        /\ {get_meals[i][2] : i \in DOMAIN get_meals} = DistinctNames(sheet)
        /\ Len(get_meals) = Cardinality(DistinctNames(sheet))

\* C10: when fetch raises during a sync run, the run ends with the catalog as
\* it was before the run, and on_startup goes on after it.
C10_FetchFailureKeepsCatalog ==
    run.log = "fetch_failed" =>
        /\ meals = run.before
        /\ pc = "done"
        /\ ENABLED StartScheduler

C10_Witness ==
    /\ pc = "done"
    /\ run.log = "fetch_failed"
    /\ run.before # {}
    /\ meals = run.before

\* Handler h leaves select_meal in this step
Commits(h) == sess[h].pc = "added" /\ sess'[h].pc = "answer"

\* The (user_id, meal_id, selected_date) handler h is inserting
Triple(h) == [user_id |-> sess[h].user_id, meal_id |-> sess[h].meal_id,
              selected_date |-> fromisoformat(sess[h].today)]

RowsOf(sel, t) ==
    {r \in sel : /\ r.user_id = t.user_id
                 /\ r.meal_id = t.meal_id
                 /\ r.selected_date = t.selected_date}

Stored(h) ==
    /\ Cardinality(RowsOf(selections', Triple(h))) = 1
    /\ selections \subseteq selections'
    /\ Cardinality(selections') = Cardinality(selections) + 1

\* C5: of two select calls in flight for the same triple, the one that
\* commits while no row of the triple exists returns True and stores the row,
\* the one that commits when the row exists returns False and stores nothing;
\* one row of the triple exists after either commit.
C5_ConcurrentSelect ==
    [][\A h \in Handlers : Commits(h) =>
        /\ Cardinality(RowsOf(selections', Triple(h))) = 1
        /\ \A k \in Handlers \ {h} :
             (/\ sess[k].pc = "added"
              /\ Triple(k) = Triple(h)
              /\ RowsOf(selections, Triple(h)) = {}) =>
                /\ sess'[h].success
                /\ sess'[k] = sess[k]
        /\ RowsOf(selections, Triple(h)) # {} =>
                /\ ~ sess'[h].success
                /\ selections' = selections]_vars

\* Two handlers are answering, one True and one False, and the table holds
\* the one row both tried to insert
C5_Witness ==
    \E h, k \in Handlers :
        /\ sess[h].pc = "answer" /\ sess[h].success
        /\ sess[k].pc = "answer" /\ ~ sess[k].success
        /\ Cardinality(selections) = 1

\* C6: select of a triple not yet selected returns True and stores its row;
\* select of a triple already selected returns False, raises nothing and
\* leaves the selections as they are.
C6_SelectTwice ==
    [][\A h \in Handlers : Commits(h) =>
        IF RowsOf(selections, Triple(h)) = {}
        THEN sess'[h].success /\ Stored(h)
        ELSE ~ sess'[h].success /\ selections' = selections]_vars

C6_Witness ==
    \E h \in Handlers :
        /\ sess[h].pc = "answer" /\ ~ sess[h].success
        /\ selections # {}

\* C7: each user has at most one selection per calendar date, whatever the
\* meal.
C7_OnePerUserDate ==
    \A r1, r2 \in selections :
        (r1.user_id = r2.user_id /\ r1.selected_date = r2.selected_date)
            => r1 = r2

WeekStarts == {isoformat(n) : n \in (0 - WeekDays - 1)..MaxDay}

Live(s) == \E m \in meals : m.id = s.meal_id

\* The selections of user u with a live meal and a date in [w, w + 7 days)
InWeek(u, w) ==
    LET d == fromisoformat(w) IN
    {s \in selections : /\ s.user_id = u
                        /\ Live(s)
                        /\ d <= s.selected_date
                        /\ s.selected_date < d + 7}

ElemsOf(q) == {q[i] : i \in DOMAIN q}

\* C8: get_user_selections(u, w) returns the selections of u with a live meal
\* and a date d, w <= d < w + 7 days, each once, by ascending date.
C8_Weekly ==
    \A u \in Users, w \in WeekStarts :
        LET got == get_user_selections(u, w)
            want == InWeek(u, w)
        IN /\ got # {}
           /\ \A q \in got :
               /\ ElemsOf(q) = {<<m.name, isoformat(s.selected_date)>> :
                                  <<m, s>> \in {p \in meals \X want :
                                                  p[1].id = p[2].meal_id}}
               /\ Len(q) = Cardinality(want)
               /\ \A i, j \in DOMAIN q :
                    i < j => fromisoformat(q[i][2]) <= fromisoformat(q[j][2])

\* A user has two selections of live meals and a week holds one of them only
C8_Witness ==
    \E u \in Users, w \in WeekStarts :
        /\ Cardinality({s \in selections : s.user_id = u /\ Live(s)}) = 2
        /\ \E q \in get_user_selections(u, w) : Len(q) = 1

\* C9: a select whose meal_id matches no row of the catalog returns True and
\* stores the row (when the triple is new), and no week of the user lists a
\* selection whose meal_id no live meal has.
C9_DanglingSelection ==
    /\ [][\A h \in Handlers :
            (/\ Commits(h)
             /\ ~ Live(Triple(h))
             /\ RowsOf(selections, Triple(h)) = {})
                => sess'[h].success /\ Stored(h)]_vars
    /\ [](\A s \in selections :
            ~ Live(s) =>
                \A w \in WeekStarts :
                    \A q \in get_user_selections(s.user_id, w) :
                        Len(q) = Cardinality(InWeek(s.user_id, w)))

\* A stored selection has no live meal and the week that starts on its date
\* is empty for its user
C9_Witness ==
    \E s \in selections :
        /\ ~ Live(s)
        /\ get_user_selections(s.user_id, isoformat(s.selected_date)) = {<<>>}

\* C11: every sync run ends, after a success, an empty fetch or a failure of
\* the fetch or of the storage, with on_startup going on; and the run that
\* follows a failed run, when its fetch returns a non-empty list and the
\* storage does not fail, replaces the catalog with that list.
C11_RunAfterFailureReplaces ==
    /\ (pc = "done") => (ENABLED StartScheduler /\ ENABLED Restart)
    /\ (/\ pc = "done"
        /\ run.prevFailed
        /\ run.log \in {"synced", "insert_integrity"}) =>
            /\ run.log = "synced"
            /\ Names(meals) = Range(run.fetched)

\* C12: every firing of the midnight job executes a sync run: the firing
\* takes the coordinator to the fetch of a run, with no restart of the
\* process.
C12_FiringRunsSync ==
    [][firings' = firings + 1 => pc' = "fetch"]_vars

\* A handler takes a step: the state of a handler, or the selections,
\* change while the process goes on
HandlerStep ==
    /\ pc' = pc
    /\ \/ sess' # sess
       \/ conv' # conv
       \/ reply' # reply
       \/ fsm' # fsm
       \/ selections' # selections

\* C13: no handler (of /meals, /view, /addmeal, a meal name or a button
\* press) takes a step before or during the startup sync run: a handler
\* steps only once sync_meals has returned and on_startup has gone on.
C13_HandlersAfterStartupSync ==
    [][HandlerStep => (pc = "serving" /\ run = NoRun)]_vars

\* After the startup run, a button press and a meal name are being answered
\* and a list has been sent
C13_Witness ==
    /\ pc = "serving"
    /\ sess[1].pc = "answer"
    /\ conv.pc = "answer"
    /\ reply.kind = "meals"

\* C14: add_meal leaves the catalog as it is, whether it returns True or
\* False, and the names it has written are in the catalog after the next
\* sync run whose fetch succeeds (and whose storage does not fail).
C14_AppendedListedAfterSync ==
    /\ [][conv' # conv => meals' = meals]_vars
    /\ []((pc = "done" /\ run.log \in {"synced", "insert_integrity"}) =>
            appended \subseteq Names(meals))

\* process_meal_name calls add_meal in this step
AddMealCalled == conv.pc = "idle" /\ conv'.pc = "answer" /\ conv'.calls = 1

\* The last row of the column that holds an entry, 0 when there is none
LastEntry(values) ==
    IF \A i \in DOMAIN values : values[i] = <<>> THEN 0
    ELSE MaxOf({i \in DOMAIN values : values[i] # <<>>})

\* C15: add_meal returns False, and raises nothing, when the get or the
\* update fails, and then the column is as it was; it returns True exactly
\* when the trimmed name has been written to the first row after the
\* entries of the column, every entry staying as it was.
C15_AddMealResult ==
    [][AddMealCalled =>
        LET name == Strip(conv'.message.text)
            written == /\ Len(sheet') = LastEntry(sheet) + 1
                       /\ sheet'[LastEntry(sheet) + 1] = <<name>>
                       /\ \A i \in DOMAIN sheet : sheet'[i] = sheet[i]
        IN /\ conv'.outcome \in {"added", "failed"}
           /\ conv'.fault # "none" => conv'.outcome = "failed"
           /\ conv'.outcome = "failed" => sheet' = sheet
           /\ conv'.outcome = "added" <=> written]_vars

\* add_meal has returned True for a name written under an existing entry
C15_Witness ==
    /\ conv.pc = "answer"
    /\ conv.outcome = "added"
    /\ Len(sheet) = MaxRows
    /\ sheet[MaxRows] = <<Strip(conv.message.text)>>
    /\ sheet[1] # sheet[MaxRows]

\* C16: only a sync run deletes rows of table meals: the DELETE of
\* clear_meals is the one step that removes a row (id and name), and no
\* step taken while the handlers are served (select_meal, get_meals,
\* get_user_selections, add_meal) changes the table.
C16_OnlySyncDeletesMeals ==
    [][/\ ~ (meals \subseteq meals') => (pc = "clear" /\ pc' = "insert")
       /\ pc = "serving" => meals' = meals]_vars

\* With a catalog, a selection is stored, a week has been listed and a meal
\* has been added to the sheet
C16_Witness ==
    /\ pc = "serving"
    /\ meals # {}
    /\ selections # {}
    /\ reply.kind = "view"
    /\ conv.pc = "answer"
    /\ conv.outcome = "added"

\* C17: on every day t, get_current_week_start returns a Monday w with
\* w <= t < w + 7 days (day 0, 2024-01-01, is a Monday), so a selection of a
\* live meal made on t is in the week get_user_selections lists for w on t.
C17_WeekStartIsMonday ==
    LET w == fromisoformat(get_current_week_start) IN
    /\ \E k \in (0 - MaxSpan)..MaxSpan : w = WeekDays * k
    /\ w <= today
    /\ today < w + WeekDays
    /\ \A s \in selections :
         (s.selected_date = today /\ Live(s)) =>
            \A q \in get_user_selections(s.user_id, get_current_week_start) :
                \E i \in DOMAIN q : q[i][2] = isoformat(today)

\* On Sunday 2023-12-31 the week of 2023-12-25 lists a selection of the day
C17_Witness ==
    /\ today = 0 - 1
    /\ get_current_week_start = <<2023, 12, 25>>
    /\ reply.kind = "view"
    /\ reply.body # <<>>
    /\ reply.body[1][2] = <<2023, 12, 31>>

\* C18: a sync run never makes a stored selection show up under another
\* name: when the meal_id of a selection has a meal before the run and a meal
\* after it, the two have the same name.
C18_SelectionKeepsName ==
    pc = "done" =>
        \A s \in selections :
            \A m0 \in run.before, m1 \in meals :
                (m0.id = s.meal_id /\ m1.id = s.meal_id) => m0.name = m1.name

\* C19: the rows of user_meal_selections only grow: no step (of a sync run,
\* of a handler, of the midnight job, of a restart) deletes or changes a
\* stored row.
C19_SelectionsOnlyGrow ==
    [][selections \subseteq selections']_vars

\* A sync run has replaced a catalog and the selection stored before it is
\* there
C19_Witness ==
    /\ pc = "done"
    /\ run.log = "synced"
    /\ run.before # {}
    /\ \E s \in selections : \E m \in run.before : m.id = s.meal_id

\* The message has a text whose trimmed length is at least MinNameLen
ValidName(message) ==
    "text" \in DOMAIN message /\ Len(Strip(message.text)) >= MinNameLen

\* The message has a text and the trimmed text is too short
ShortName(message) ==
    "text" \in DOMAIN message /\ Len(Strip(message.text)) < MinNameLen

====
